---- MODULE Spec2Model ----
(***************************************************************************)
(* Model of the depends / tree-sitter visualizer:                          *)
(*   - the node-activation overlay of the client (src/src/App.tsx),        *)
(*   - the client's graph text parser (src/src/App.tsx),                   *)
(*   - the DOT / JSON id conversion of the CLI (src/unnamed/part_000).     *)
(* Texts are sequences of one-character strings, so that the regular       *)
(* expressions of the source are modelled character by character.          *)
(***************************************************************************)
EXTENDS Integers, Sequences, FiniteSets, TLC

VARIABLES
    \* ---- overlay (CytoscapeEdgehandlesDemo) ----
    popupDot,      \* useState popupDot: Null or Some(text)
    popupTitle,    \* useState popupTitle: Null or Some(node id)
    popupError,    \* useState popupError: Null or Some(message)
    acts,          \* the tap handler invocations so far, each with its fetchDotForNode frame
    \* ---- client parser (init / parseDotToElements) ----
    dotText,       \* the text fetched by init
    pPc,           \* position in init: "fetched", "probed", "done"
    quotedMatch,   \* the probe's result
    ran,           \* the extraction strategies that have run, in order
    gNodes,        \* the node elements: sequence of [id, label]
    gEdges,        \* the edge elements: sequence of <<source, target>>
    gPos,          \* the node elements' positions, in the order of gNodes
    \* ---- convertDotIds ----
    rawDot,        \* the DOT file on disk: Null (unreadable) or Some(text)
    rawJson,       \* the JSON side file on disk
    cPc,           \* position in convertDotIds
    dot,           \* the local dot: the file's text, \r\n normalized
    idToLabel,     \* the Map built from the comment lines: sequence of <<id, label>>
    newDot,        \* the local newDot
    convertedDot,  \* the .converted.dot file: Null or Some(text)
    convertedJson, \* the .converted.json file: Null or Some(record set)
    logs,          \* console.warn / console.error calls, in order
    \* ---- parseFileWithTreeSitter: the two tree serializers ----
    tree,          \* the parsed tree: nodes are [type, children]
    tPc,           \* position in parseFileWithTreeSitter
    dotGraph,      \* the .tree.dot text built by nodeToDot: Null or Some(text)
    dotFileGraph   \* the text returned by treeToDot: Null or Some(text)

overlayVars == <<popupDot, popupTitle, popupError, acts>>
parseVars == <<dotText, pPc, quotedMatch, ran, gNodes, gEdges, gPos>>
convertVars == <<rawDot, rawJson, cPc, dot, idToLabel, newDot, convertedDot, convertedJson, logs>>
treeVars == <<tree, tPc, dotGraph, dotFileGraph>>
vars == <<overlayVars, parseVars, convertVars, treeVars>>

(***************************************************************************)
(* Bounds of the model.                                                    *)
(***************************************************************************)
MaxTaps == 2
MaxDotLines == 2
MaxRawLines == 3
MaxVars == 2
MaxCells == 1
MaxTreeNodes == 4

(***************************************************************************)
(* Characters and generic text helpers.                                    *)
(***************************************************************************)
Null == << >>
Some(x) == <<x>>

\* JavaScript truthiness of a (string | null) state value
Truthy(o) == o # Null /\ o[1] # << >>

Digit == {"0", "1", "2", "3", "4", "5", "6", "7", "8", "9"}
Lower == {"a", "b", "c", "d", "e", "f", "g", "h", "i", "j", "k", "l", "m",
          "n", "o", "p", "q", "r", "s", "t", "u", "v", "w", "x", "y", "z"}
Upper == {"A", "B", "C", "D", "E", "F", "G", "H", "I", "J", "K", "L", "M",
          "N", "O", "P", "Q", "R", "S", "T", "U", "V", "W", "X", "Y", "Z"}
\* [A-Za-z0-9_]
WordChar == Digit \cup Lower \cup Upper \cup {"_"}
\* \s (the white space the model's texts can hold)
Space == {" ", "\t", "\n", "\r", "\f"}
\* the line terminators that . does not match and that ^ and $ (flag m) see
LineTerm == {"\n", "\r"}

\* Array.prototype.join
RECURSIVE Join(_, _)
Join(ss, sep) ==
    IF ss = << >> THEN << >>
    ELSE IF Len(ss) = 1 THEN ss[1]
    ELSE ss[1] \o sep \o Join(Tail(ss), sep)

Contains(seq, x) == \E i \in 1..Len(seq) : seq[i] = x

\* the first position p >= from at which text[p] is not in the class (Len+1 if none)
RECURSIVE SkipWhile(_, _, _)
SkipWhile(text, from, class) ==
    IF from <= Len(text) /\ text[from] \in class
    THEN SkipWhile(text, from + 1, class)
    ELSE from

\* the first position p >= from at which text[p] is in the class (Len+1 if none)
RECURSIVE SkipUntil(_, _, _)
SkipUntil(text, from, class) ==
    IF from <= Len(text) /\ text[from] \notin class
    THEN SkipUntil(text, from + 1, class)
    ELSE from

\* whether the literal lit stands in text at position p
LitAt(text, p, lit) ==
    /\ p >= 1
    /\ p + Len(lit) - 1 <= Len(text)
    /\ \A k \in 1..Len(lit) : text[p + k - 1] = lit[k]

\* String.prototype.split("\n")
RECURSIVE SplitLines(_)
SplitLines(text) ==
    LET p == SkipUntil(text, 1, {"\n"})
    IN  IF p > Len(text) THEN <<text>>
        ELSE <<SubSeq(text, 1, p - 1)>> \o SplitLines(SubSeq(text, p + 1, Len(text)))

(***************************************************************************)
(* fetchDotForNode: the candidate locations.                               *)
(***************************************************************************)
\* encodeURIComponent leaves A-Z a-z 0-9 - _ . ! ~ * ' ( ) alone and writes every
\* other (ASCII) character as %XX
Unreserved == WordChar \cup {"-", ".", "!", "~", "*", "'", "(", ")"}

EscapeOf(c) ==
    CASE c = " "  -> <<"%", "2", "0">>
      [] c = "\"" -> <<"%", "2", "2">>
      [] c = "#"  -> <<"%", "2", "3">>
      [] c = "$"  -> <<"%", "2", "4">>
      [] c = "%"  -> <<"%", "2", "5">>
      [] c = "&"  -> <<"%", "2", "6">>
      [] c = "+"  -> <<"%", "2", "B">>
      [] c = ","  -> <<"%", "2", "C">>
      [] c = "/"  -> <<"%", "2", "F">>
      [] c = ":"  -> <<"%", "3", "A">>
      [] c = ";"  -> <<"%", "3", "B">>
      [] c = "="  -> <<"%", "3", "D">>
      [] c = "?"  -> <<"%", "3", "F">>
      [] c = "@"  -> <<"%", "4", "0">>
      [] c = "["  -> <<"%", "5", "B">>
      [] c = "\\" -> <<"%", "5", "C">>
      [] c = "]"  -> <<"%", "5", "D">>

RECURSIVE encodeURIComponent(_)
encodeURIComponent(s) ==
    IF s = << >> THEN << >>
    ELSE (IF Head(s) \in Unreserved THEN <<Head(s)>> ELSE EscapeOf(Head(s)))
         \o encodeURIComponent(Tail(s))

\* .replace(/%2F/g, "__")
RECURSIVE ReplaceSlashEscapes(_)
ReplaceSlashEscapes(s) ==
    IF s = << >> THEN << >>
    ELSE IF LitAt(s, 1, <<"%", "2", "F">>)
         THEN <<"_", "_">> \o ReplaceSlashEscapes(SubSeq(s, 4, Len(s)))
         ELSE <<Head(s)>> \o ReplaceSlashEscapes(Tail(s))

DotDir == <<"/", "d", "o", "t", "/">>
ExtTreeDot == <<".", "t", "r", "e", "e", ".", "d", "o", "t">>
ExtDot == <<".", "d", "o", "t">>
ExtTxt == <<".", "t", "x", "t">>

candidates(nodeId) ==
    LET enc == encodeURIComponent(nodeId)
    IN  << DotDir \o enc \o ExtTreeDot,
           DotDir \o enc \o ExtDot,
           DotDir \o enc \o ExtTreeDot \o ExtTxt,
           <<"/">> \o enc \o ExtTreeDot,
           <<"/">> \o enc \o ExtDot,
           DotDir \o enc \o ExtTreeDot,
           ReplaceSlashEscapes(DotDir \o enc \o ExtTreeDot) >>

\* a plausible slip: the loop pushes a location it has tried already
NextCandidateNoSkip(cands, tried, from) ==
    IF from <= Len(cands) THEN from ELSE 0

\* the for loop from candidate number `from` on: `if (tried.includes(url)) continue`;
\* the number of the next candidate that is requested, 0 when the loop ends
RECURSIVE NextCandidate(_, _, _)
NextCandidate(cands, tried, from) ==
    IF from > Len(cands) THEN 0
    ELSE IF Contains(tried, cands[from]) THEN NextCandidate(cands, tried, from + 1)
    ELSE from

\* the Error thrown when the loop ends; the literal parts are single tokens
NoDotFileMessage(nodeId, tried) ==
    <<"No DOT file found for \"">> \o nodeId \o <<"\". Tried: ">>
        \o Join(tried, <<",", " ">>)
        \o <<". Put the file in public/dot/ or ensure your server exposes /dot/ path.">>

\* the text the server holds at a location, identified by the location
DotAt(url) == <<"digraph@">> \o url


(***************************************************************************)
(* The overlay: the tap handler, fetchDotForNode and the popup's clicks.   *)
(***************************************************************************)
\* the node ids of the rendered graph that can be tapped
NodeIds == { <<"a">>, <<"u", "/", "h">> }

\* what one fetch(url) (and res.text()) comes to: a 2xx response with its text, a
\* non-ok status, or a rejected promise
Outcomes == {"ok", "status", "throw"}

\* the frame of one tap handler invocation as it awaits: the first loop iteration
\* of fetchDotForNode has pushed and requested the first candidate
NewFrame(nodeId) ==
    LET cands == candidates(nodeId)
        first == NextCandidate(cands, << >>, 1)
    IN  [nodeId |-> nodeId, ci |-> first, tried |-> <<cands[first]>>, log |-> << >>,
         pc |-> "fetching", result |-> Null]

\* a plausible slip: no return on res.ok, the loop goes on to the next candidate
AfterResponseNoReturn(a, r) ==
    LET cands == candidates(a.nodeId)
        url == cands[a.ci]
        logged == Append(a.log, [url |-> url, ok |-> (r = "ok")])
        nx == NextCandidate(cands, a.tried, a.ci + 1)
    IN  IF nx = 0
        THEN [a EXCEPT !.log = logged, !.pc = IF r = "ok" THEN "found" ELSE "failed",
                       !.result = IF r = "ok" THEN Some([url |-> url, text |-> DotAt(url)])
                                  ELSE Null]
        ELSE [a EXCEPT !.log = logged, !.ci = nx, !.tried = Append(a.tried, cands[nx])]

\* fetchDotForNode resumed by the outcome r of the request it awaits: return on
\* res.ok, else the next loop iterations up to the next request, or the throw
AfterResponse(a, r) ==
    LET cands == candidates(a.nodeId)
        url == cands[a.ci]
        logged == Append(a.log, [url |-> url, ok |-> (r = "ok")])
        nx == NextCandidate(cands, a.tried, a.ci + 1)
    IN  IF r = "ok"
        THEN [a EXCEPT !.log = logged, !.pc = "found",
                       !.result = Some([url |-> url, text |-> DotAt(url)])]
        ELSE IF nx = 0
        THEN [a EXCEPT !.log = logged, !.pc = "failed"]
        ELSE [a EXCEPT !.log = logged, !.ci = nx, !.tried = Append(a.tried, cands[nx])]

\* cyInstance.on("tap", "node"): up to the await
Tap(nodeId) ==
    /\ Len(acts) < MaxTaps
    /\ popupError' = Null
    /\ popupTitle' = Some(nodeId)
    /\ acts' = Append(acts, NewFrame(nodeId))
    /\ UNCHANGED popupDot

\* the tap handler of invocation i resumed: the rest of its try / catch
FetchResponse(i, r) ==
    /\ i \in 1..Len(acts)
    /\ acts[i].pc = "fetching"
    /\ LET b == AfterResponse(acts[i], r)
       IN  /\ acts' = [acts EXCEPT ![i] = b]
           /\ CASE b.pc = "found" ->
                     /\ popupDot' = Some(b.result[1].text)
                     /\ UNCHANGED <<popupError, popupTitle>>
                [] b.pc = "failed" ->
                     /\ popupError' = Some(NoDotFileMessage(b.nodeId, b.tried))
                     /\ popupDot' = Null
                     /\ UNCHANGED popupTitle
                [] OTHER -> UNCHANGED <<popupDot, popupError, popupTitle>>

\* the popup is in the tree only when (popupDot || popupError)
PopupShown == Truthy(popupDot) \/ Truthy(popupError)

\* onClick of the backdrop div
ClickBackdrop ==
    /\ PopupShown
    /\ popupDot' = Null
    /\ popupError' = Null
    /\ popupTitle' = Null
    /\ UNCHANGED acts

\* onClick of the close button (the header's stopPropagation keeps the click
\* from the backdrop's handler, which would do the same)
ClickClose ==
    /\ PopupShown
    /\ popupDot' = Null
    /\ popupError' = Null
    /\ popupTitle' = Null
    /\ UNCHANGED acts

\* a click in the header or the body without e.stopPropagation(): it bubbles
\* to the backdrop's onClick
ClickContentBubbles ==
    /\ PopupShown
    /\ popupDot' = Null
    /\ popupError' = Null
    /\ popupTitle' = Null
    /\ UNCHANGED acts

\* a click in the header or the body: e.stopPropagation(), no handler of the
\* backdrop runs
ClickContent ==
    /\ PopupShown
    /\ UNCHANGED overlayVars

OverlayIdle ==
    /\ popupDot = Null
    /\ popupTitle = Null
    /\ popupError = Null
    /\ acts = << >>


(***************************************************************************)
(* The client's graph text parser: the regular expressions.                *)
(* A match is [ok, g1, g2, end]: the two groups and the position after it. *)
(***************************************************************************)
Q == "\""
NoMatch == [ok |-> FALSE, g1 |-> << >>, g2 |-> << >>, end |-> 0]

\* /"([^"]+)"\s*->\s*"([^"]+)"/ matched at position s
QuotedAt(text, s) ==
    IF ~(s <= Len(text) /\ text[s] = Q) THEN NoMatch
    ELSE LET q1 == SkipUntil(text, s + 1, {Q})
             a == SkipWhile(text, q1 + 1, Space)
             b == SkipWhile(text, a + 2, Space)
             q2 == SkipUntil(text, b + 1, {Q})
         IN  IF q1 > Len(text) \/ q1 = s + 1 THEN NoMatch
             ELSE IF ~LitAt(text, a, <<"-", ">">>) THEN NoMatch
             ELSE IF ~(b <= Len(text) /\ text[b] = Q) THEN NoMatch
             ELSE IF q2 > Len(text) \/ q2 = b + 1 THEN NoMatch
             ELSE [ok |-> TRUE, g1 |-> SubSeq(text, s + 1, q1 - 1),
                   g2 |-> SubSeq(text, b + 1, q2 - 1), end |-> q2 + 1]

\* the leftmost match at or after position from
RECURSIVE FindQuoted(_, _)
FindQuoted(text, from) ==
    IF from > Len(text) THEN NoMatch
    ELSE IF QuotedAt(text, from).ok THEN QuotedAt(text, from)
    ELSE FindQuoted(text, from + 1)

\* a plausible slip: the probe run line by line, like the extraction
QuotedTestPerLine(text) ==
    \E i \in 1..Len(SplitLines(text)) : FindQuoted(SplitLines(text)[i], 1).ok

\* /"([^"]+)"\s*->\s*"([^"]+)"/.test(dotText)
QuotedTest(text) == FindQuoted(text, 1).ok

\* (.*?)"\] from position p: the position of the closing quote, 0 if none
RECURSIVE LabelEnd(_, _)
LabelEnd(text, p) ==
    IF p > Len(text) THEN 0
    ELSE IF LitAt(text, p, <<Q, "]">>) THEN p
    ELSE IF text[p] \in LineTerm THEN 0
    ELSE LabelEnd(text, p + 1)

\* \s*;? from position p: the position after it
AfterSemi(text, p) ==
    LET w == SkipWhile(text, p, Space)
    IN  IF w <= Len(text) /\ text[w] = ";" THEN w + 1 ELSE w

\* /([A-Za-z0-9_]+)\s*\[label\s*=\s*"(.*?)"\]\s*;?/ matched at position s
NodeAt(text, s) ==
    IF ~(s <= Len(text) /\ text[s] \in WordChar) THEN NoMatch
    ELSE LET e1 == SkipWhile(text, s, WordChar)
             a == SkipWhile(text, e1, Space)
             b == SkipWhile(text, a + 6, Space)
             c == SkipWhile(text, b + 1, Space)
             q == LabelEnd(text, c + 1)
         IN  IF ~LitAt(text, a, <<"[", "l", "a", "b", "e", "l">>) THEN NoMatch
             ELSE IF ~(b <= Len(text) /\ text[b] = "=") THEN NoMatch
             ELSE IF ~(c <= Len(text) /\ text[c] = Q) THEN NoMatch
             ELSE IF q = 0 THEN NoMatch
             ELSE [ok |-> TRUE, g1 |-> SubSeq(text, s, e1 - 1),
                   g2 |-> SubSeq(text, c + 1, q - 1), end |-> AfterSemi(text, q + 2)]

RECURSIVE FindNode(_, _)
FindNode(text, from) ==
    IF from > Len(text) THEN NoMatch
    ELSE IF NodeAt(text, from).ok THEN NodeAt(text, from)
    ELSE FindNode(text, from + 1)

\* /([A-Za-z0-9_]+)\s*->\s*([A-Za-z0-9_]+)\s*;?/ matched at position s
EdgeAt(text, s) ==
    IF ~(s <= Len(text) /\ text[s] \in WordChar) THEN NoMatch
    ELSE LET e1 == SkipWhile(text, s, WordChar)
             a == SkipWhile(text, e1, Space)
             b == SkipWhile(text, a + 2, Space)
             e2 == SkipWhile(text, b, WordChar)
         IN  IF ~LitAt(text, a, <<"-", ">">>) THEN NoMatch
             ELSE IF e2 = b THEN NoMatch
             ELSE [ok |-> TRUE, g1 |-> SubSeq(text, s, e1 - 1),
                   g2 |-> SubSeq(text, b, e2 - 1), end |-> AfterSemi(text, e2)]

RECURSIVE FindEdge(_, _)
FindEdge(text, from) ==
    IF from > Len(text) THEN NoMatch
    ELSE IF EdgeAt(text, from).ok THEN EdgeAt(text, from)
    ELSE FindEdge(text, from + 1)

(***************************************************************************)
(* Map and Set, which keep insertion order.                                *)
(***************************************************************************)
MapHas(m, k) == \E i \in 1..Len(m) : m[i][1] = k
MapGet(m, k) == m[CHOOSE i \in 1..Len(m) : m[i][1] = k][2]
\* Map.prototype.set: a new key goes last, a known key keeps its place
MapSet(m, k, v) ==
    IF MapHas(m, k)
    THEN [i \in 1..Len(m) |-> IF m[i][1] = k THEN <<k, v>> ELSE m[i]]
    ELSE Append(m, <<k, v>>)
\* Set.prototype.add
SetAdd(set, x) == IF Contains(set, x) THEN set ELSE Append(set, x)

(***************************************************************************)
(* parseDotToElements and the quoted extraction of init.                   *)
(***************************************************************************)
\* the while loop over nodeRegex.exec(dot), lastIndex = from - 1
RECURSIVE CollectLabels(_, _, _)
CollectLabels(text, from, map) ==
    LET m == FindNode(text, from)
    IN  IF ~m.ok THEN map
        ELSE CollectLabels(text, m.end, MapSet(map, m.g1, m.g2))

\* a plausible slip: the edge loop does not materialize the target
AddEndpointsSrcOnly(map, src, dst) ==
    IF MapHas(map, src) THEN map ELSE MapSet(map, src, src)

\* if (!idToLabel.has(src)) ...; if (!idToLabel.has(dst)) ...
AddEndpoints(map, src, dst) ==
    LET m1 == IF MapHas(map, src) THEN map ELSE MapSet(map, src, src)
    IN  IF MapHas(m1, dst) THEN m1 ELSE MapSet(m1, dst, dst)

\* the while loop over edgeRegex.exec(dot): [map, edges]
RECURSIVE CollectEdges(_, _, _, _)
CollectEdges(text, from, map, edges) ==
    LET m == FindEdge(text, from)
    IN  IF ~m.ok THEN [map |-> map, edges |-> edges]
        ELSE CollectEdges(text, m.end, AddEndpoints(map, m.g1, m.g2),
                          Append(edges, <<m.g1, m.g2>>))

parseDotToElements(text) ==
    LET r == CollectEdges(text, 1, CollectLabels(text, 1, << >>), << >>)
    IN  [nodes |-> [i \in 1..Len(r.map) |-> [id |-> r.map[i][1], label |-> r.map[i][2]]],
         edges |-> r.edges]

\* a plausible slip: every occurrence of the text taken, across the lines
RECURSIVE QuotedEdgesGlobal(_, _)
QuotedEdgesGlobal(text, from) ==
    LET m == FindQuoted(text, from)
    IN  IF ~m.ok THEN << >>
        ELSE <<(<<m.g1, m.g2>>)>> \o QuotedEdgesGlobal(text, m.end)

QuotedEdgesOfText(lines) == QuotedEdgesGlobal(Join(lines, <<"\n">>), 1)

\* for (const line of dotText.split("\n")) { const m = line.match(...); ... }: the edges
RECURSIVE QuotedEdges(_)
QuotedEdges(lines) ==
    IF lines = << >> THEN << >>
    ELSE LET m == FindQuoted(Head(lines), 1)
         IN  (IF m.ok THEN <<(<<m.g1, m.g2>>)>> ELSE << >>) \o QuotedEdges(Tail(lines))

\* nodesSet.add(m[1]); nodesSet.add(m[2]) for every edge, in order
RECURSIVE QuotedNodes(_, _)
QuotedNodes(edges, set) ==
    IF edges = << >> THEN set
    ELSE QuotedNodes(Tail(edges), SetAdd(SetAdd(set, Head(edges)[1]), Head(edges)[2]))


(***************************************************************************)
(* init: the texts it may fetch, the probe and the two extractions.        *)
(***************************************************************************)
\* "a" -> "b";
DotLineQuoted ==
    <<"\"", "a", "\"", " ", "-", ">", " ", "\"", "b", "\"", ";">>
\* "b"->"a" "c"->"a"
DotLineTwoQuoted ==
    <<"\"", "b", "\"", "-", ">", "\"", "a", "\"", " ", "\"", "c", "\"", "-", ">", "\"", "a", "\"">>
\* "c"
DotLineQuotedHead ==
    <<"\"", "c", "\"">>
\* -> "a";
DotLineQuotedTail ==
    <<"-", ">", " ", "\"", "a", "\"", ";">>
\* n0 [label="x"];
DotLineDecl ==
    <<"n", "0", " ", "[", "l", "a", "b", "e", "l", "=", "\"", "x", "\"", "]", ";">>
\* n0 -> n1;
DotLineEdge ==
    <<"n", "0", " ", "-", ">", " ", "n", "1", ";">>
\* n1 [label = "y"] n2->n0
DotLineDeclEdge ==
    <<"n", "1", " ", "[", "l", "a", "b", "e", "l", " ", "=", " ", "\"", "y", "\"", "]", " ", "n", "2", "-", ">", "n", "0">>
\* n2 [label="p->q"]
DotLineArrowLabel ==
    <<"n", "2", " ", "[", "l", "a", "b", "e", "l", "=", "\"", "p", "-", ">", "q", "\"", "]">>
\* a->b c->d e->f g->h
DotLineManyEdges ==
    <<"a", "-", ">", "b", " ", "c", "-", ">", "d", " ",
      "e", "-", ">", "f", " ", "g", "-", ">", "h">>

DotLinePool ==
    {DotLineQuoted,
     DotLineTwoQuoted,
     DotLineQuotedHead,
     DotLineQuotedTail,
     DotLineDecl,
     DotLineEdge,
     DotLineDeclEdge,
     DotLineArrowLabel,
     DotLineManyEdges}

TextsOf(pool, maxLines) ==
    { Join(ls, <<"\n">>) : ls \in UNION { [1..n -> pool] : n \in 0..maxLines } }

DotTexts == TextsOf(DotLinePool, MaxDotLines)

\* The canvas point both layouts place their circle around.
centerX == 400
centerY == 250

Max(a, b) == IF a >= b THEN a ELSE b
Min(a, b) == IF a <= b THEN a ELSE b

\* A position centerX + radius * Math.cos(i * angleStep), centerY + radius *
\* Math.sin(i * angleStep) with angleStep = 2 * Math.PI / of is kept in polar
\* form: the radius and the angle i/of of a full turn.  The angle is reduced
\* to a turn only where it is exact: no turn at all, cos = 1 and sin = 0.
Polar(radius, i, of) == [radius |-> radius, turn |-> i, of |-> of]
PosX(p) == IF p.turn = 0 THEN Some(centerX + p.radius) ELSE Null
PosY(p) == IF p.turn = 0 THEN Some(centerY) ELSE Null

\* buildCytoscapeElements: n = nodes.length || 1,
\* radius = Math.max(120, Math.min(300, 40 * n)), angleStep = 2 * Math.PI / n
buildCytoscapeElements(nodes) ==
    LET n == IF Len(nodes) = 0 THEN 1 ELSE Len(nodes)
        radius == Max(120, Min(300, 40 * n))
    IN  [i \in 1..Len(nodes) |-> Polar(radius, i - 1, n)]

\* the quoted branch of init: radius = 200,
\* angleStep = 2 * Math.PI / Math.max(1, nodesArr.length)
QuotedPositions(nodesArr) ==
    LET radius == 200
    IN  [i \in 1..Len(nodesArr) |-> Polar(radius, i - 1, Max(1, Len(nodesArr)))]

ParseIdle ==
    /\ dotText = << >>
    /\ pPc = "off"
    /\ quotedMatch = FALSE
    /\ ran = << >>
    /\ gNodes = << >>
    /\ gEdges = << >>
    /\ gPos = << >>

\* const quotedMatch = /.../.test(dotText)
Probe ==
    /\ pPc = "fetched"
    /\ quotedMatch' = QuotedTest(dotText)
    /\ pPc' = "probed"
    /\ UNCHANGED <<dotText, ran, gNodes, gEdges, gPos>>

\* if (quotedMatch) { ... }: nodes are {id, name: id}
ExtractQuoted ==
    /\ pPc = "probed"
    /\ quotedMatch
    /\ LET edges == QuotedEdges(SplitLines(dotText))
           nodesArr == QuotedNodes(edges, << >>)
       IN  /\ gEdges' = edges
           /\ gNodes' = [i \in 1..Len(nodesArr) |-> [id |-> nodesArr[i], label |-> nodesArr[i]]]
           /\ gPos' = QuotedPositions(nodesArr)
    /\ ran' = Append(ran, "quoted")
    /\ pPc' = "done"
    /\ UNCHANGED <<dotText, quotedMatch>>

\* else { parsed = parseDotToElements(dotText); buildCytoscapeElements(parsed) }
ParseLabeled ==
    /\ pPc = "probed"
    /\ ~quotedMatch
    /\ LET parsed == parseDotToElements(dotText)
       IN  /\ gEdges' = parsed.edges
           /\ gNodes' = parsed.nodes
           /\ gPos' = buildCytoscapeElements(parsed.nodes)
    /\ ran' = Append(ran, "labeled")
    /\ pPc' = "done"
    /\ UNCHANGED <<dotText, quotedMatch>>


(***************************************************************************)
(* convertDotIds: the text transformations.                                *)
(***************************************************************************)
\* .replaceAll('\r\n', '\n')
RECURSIVE NormalizeNewlines(_)
NormalizeNewlines(text) ==
    IF text = << >> THEN << >>
    ELSE IF LitAt(text, 1, <<"\r", "\n">>)
         THEN <<"\n">> \o NormalizeNewlines(SubSeq(text, 3, Len(text)))
         ELSE <<Head(text)>> \o NormalizeNewlines(Tail(text))

\* the last position <= p at which text[p] is not "/" (0 if none)
RECURSIVE LastNonSlash(_, _)
LastNonSlash(text, p) ==
    IF p = 0 THEN 0
    ELSE IF text[p] # "/" THEN p
    ELSE LastNonSlash(text, p - 1)

\* the last position <= p at which text[p] is "/" (0 if none)
RECURSIVE LastSlash(_, _)
LastSlash(text, p) ==
    IF p = 0 THEN 0
    ELSE IF text[p] = "/" THEN p
    ELSE LastSlash(text, p - 1)

\* path.basename (posix): trailing slashes dropped, then the last segment
basename(path) ==
    LET end == LastNonSlash(path, Len(path))
    IN  IF end = 0 THEN << >>
        ELSE SubSeq(path, LastSlash(path, end) + 1, end)

\* ^ under flag m: at the start, or after a line terminator
LineStartAt(text, s) == s = 1 \/ (s >= 2 /\ s <= Len(text) + 1 /\ text[s - 1] \in LineTerm)

\* /\/\/\s*(\d+):(.*)/ matched at position s
CommentAt(text, s) ==
    IF ~LitAt(text, s, <<"/", "/">>) THEN NoMatch
    ELSE LET a == SkipWhile(text, s + 2, Space)
             e == SkipWhile(text, a, Digit)
             z == SkipUntil(text, e + 1, LineTerm)
         IN  IF e = a THEN NoMatch
             ELSE IF ~(e <= Len(text) /\ text[e] = ":") THEN NoMatch
             ELSE [ok |-> TRUE, g1 |-> SubSeq(text, a, e - 1),
                   g2 |-> SubSeq(text, e + 1, z - 1), end |-> z]

RECURSIVE FindComment(_, _)
FindComment(text, from) ==
    IF from > Len(text) THEN NoMatch
    ELSE IF CommentAt(text, from).ok THEN CommentAt(text, from)
    ELSE FindComment(text, from + 1)

\* the while loop over commentRegex.exec(dot): idToLabel.set(id, path.basename(fullPath))
RECURSIVE CommentLabels(_, _, _)
CommentLabels(text, from, map) ==
    LET m == FindComment(text, from)
    IN  IF ~m.ok THEN map
        ELSE CommentLabels(text, m.end, MapSet(map, m.g1, basename(m.g2)))

\* a plausible slip: ?? in place of ||, an empty label is kept
LabelOrNullish(map, x) ==
    IF MapHas(map, x) THEN MapGet(map, x) ELSE x

\* idToLabel.get(x) || x
LabelOr(map, x) ==
    IF MapHas(map, x) /\ MapGet(map, x) # << >> THEN MapGet(map, x) ELSE x

\* /^(\s*)(\d+)\s+->\s+(\d+);/m matched at position s: [ok, space, from, to, end]
NoEdgeLine == [ok |-> FALSE, space |-> << >>, from |-> << >>, to |-> << >>, end |-> 0]

EdgeLineAt(text, s) ==
    IF ~LineStartAt(text, s) THEN NoEdgeLine
    ELSE LET a == SkipWhile(text, s, Space)
             e1 == SkipWhile(text, a, Digit)
             b == SkipWhile(text, e1, Space)
             c == SkipWhile(text, b + 2, Space)
             e2 == SkipWhile(text, c, Digit)
         IN  IF e1 = a \/ b = e1 THEN NoEdgeLine
             ELSE IF ~LitAt(text, b, <<"-", ">">>) THEN NoEdgeLine
             ELSE IF c = b + 2 \/ e2 = c THEN NoEdgeLine
             ELSE IF ~(e2 <= Len(text) /\ text[e2] = ";") THEN NoEdgeLine
             ELSE [ok |-> TRUE, space |-> SubSeq(text, s, a - 1),
                   from |-> SubSeq(text, a, e1 - 1), to |-> SubSeq(text, c, e2 - 1),
                   end |-> e2 + 1]

\* the replacement function: `${space}"${fromLabel}" -> "${toLabel}";`
EdgeReplacement(map, m) ==
    m.space \o <<Q>> \o LabelOr(map, m.from) \o <<Q, " ", "-", ">", " ", Q>>
            \o LabelOr(map, m.to) \o <<Q, ";">>

\* dot.replace(/^(\s*)(\d+)\s+->\s+(\d+);/gm, ...) from position from on
RECURSIVE ReplaceEdges(_, _, _)
ReplaceEdges(text, from, map) ==
    IF from > Len(text) THEN << >>
    ELSE LET m == EdgeLineAt(text, from)
         IN  IF m.ok THEN EdgeReplacement(map, m) \o ReplaceEdges(text, m.end, map)
             ELSE <<text[from]>> \o ReplaceEdges(text, from + 1, map)

\* .replace(/^\/\/.*$/gm, '') from position from on
RECURSIVE RemoveComments(_, _)
RemoveComments(text, from) ==
    IF from > Len(text) THEN << >>
    ELSE IF LineStartAt(text, from) /\ LitAt(text, from, <<"/", "/">>)
         THEN RemoveComments(text, SkipUntil(text, from, LineTerm))
         ELSE <<text[from]>> \o RemoveComments(text, from + 1)

\* the last position in from..to holding \r or \n (0 if none)
RECURSIVE LastBreak(_, _, _)
LastBreak(text, from, to) ==
    IF to < from THEN 0
    ELSE IF text[to] \in {"\r", "\n"} THEN to
    ELSE LastBreak(text, from, to - 1)

\* .replace(/^\s*[\r\n]/gm, '') from position from on: \s* gives back up to the
\* last line break of the white space it took
RECURSIVE RemoveBlankLines(_, _)
RemoveBlankLines(text, from) ==
    IF from > Len(text) THEN << >>
    ELSE LET k == IF LineStartAt(text, from)
                  THEN LastBreak(text, from, SkipWhile(text, from, Space) - 1)
                  ELSE 0
         IN  IF k # 0 THEN RemoveBlankLines(text, k + 1)
             ELSE <<text[from]>> \o RemoveBlankLines(text, from + 1)


(***************************************************************************)
(* convertDotIds: the files it reads.                                      *)
(***************************************************************************)
\* // 1:/x/a.py
RawLineCommentA ==
    <<"/", "/", " ", "1", ":", "/", "x", "/", "a", ".", "p", "y">>
\* // 2:b.py\r
RawLineCommentB ==
    <<"/", "/", " ", "2", ":", "b", ".", "p", "y", "\r">>
\* 1 -> 2;
RawLineEdge ==
    <<"1", " ", "-", ">", " ", "2", ";">>
\*   2 -> 3;
RawLineEdgeIndented ==
    <<" ", " ", "2", " ", "-", ">", " ", "3", ";">>
\*   // 3:/y/c.py
RawLineCommentIndented ==
    <<" ", " ", "/", "/", " ", "3", ":", "/", "y", "/", "c", ".", "p", "y">>
\* 
RawLineBlank ==
    << >>
\* // 1:/
RawLineCommentNoName ==
    <<"/", "/", " ", "1", ":", "/">>

RawLinePool ==
    {RawLineCommentA,
     RawLineCommentB,
     RawLineEdge,
     RawLineEdgeIndented,
     RawLineCommentIndented,
     RawLineBlank,
     RawLineCommentNoName}

PathA ==
    <<"/", "x", "/", "a", ".", "p", "y">>
PathB ==
    <<"b", ".", "p", "y">>

RawTexts == TextsOf(RawLinePool, MaxRawLines)
RawDefault == Join(<<RawLineCommentA, RawLineEdge>>, <<"\n">>)

\* JSON values of a cell's src and dest: a number, a string, or undefined (the
\* key JSON.stringify leaves out)
JNum(n) == [t |-> "num", n |-> n, s |-> << >>]
JStr(s) == [t |-> "str", n |-> 0, s |-> s]
JUndef == [t |-> "undef", n |-> 0, s |-> << >>]

SeqsUpTo(S, n) == UNION { [1..k -> S] : k \in 0..n }

CellsOver(n) ==
    SeqsUpTo([src : {JNum(i) : i \in 0..(n - 1)}, dest : {JNum(i) : i \in 0..(n - 1)},
              values : {"Call", "Import"}], MaxCells)

\* the side file: absent, not JSON, or an object that may lack variables or cells;
\* the indices of its cells are positions of variables
JsonAbsent == [kind |-> "absent", variables |-> Null, cells |-> Null, name |-> << >>]
JsonMalformed == [kind |-> "malformed", variables |-> Null, cells |-> Null, name |-> << >>]
JsonObject(vs, cs) == [kind |-> "object", variables |-> vs, cells |-> cs, name |-> <<"d">>]
JsonDefault ==
    JsonObject(Some(<<PathA, PathB>>),
               Some(<<[src |-> JNum(1), dest |-> JNum(0), values |-> "Import"]>>))
JsonBasic == {JsonAbsent, JsonMalformed, JsonDefault}
JsonFiles ==
    {JsonAbsent, JsonMalformed, JsonObject(Null, Some(<< >>)),
     JsonObject(Some(<<PathA>>), Null)}
    \cup UNION { { JsonObject(Some(vs), Some(cs)) : cs \in CellsOver(Len(vs)) } :
                   vs \in SeqsUpTo({PathA, PathB}, MaxVars) }

(***************************************************************************)
(* convertDotIds: the steps.                                               *)
(***************************************************************************)
ConvertIdle ==
    /\ rawDot = Null
    /\ rawJson = JsonAbsent
    /\ cPc = "off"
    /\ dot = << >>
    /\ idToLabel = << >>
    /\ newDot = << >>
    /\ convertedDot = Null
    /\ convertedJson = Null
    /\ logs = << >>

\* 1. fs.readFile(dotPath): a failure goes to the outer catch
ReadDot ==
    /\ cPc = "start"
    /\ IF rawDot = Null
       THEN /\ logs' = Append(logs, "error: Failed to convert DOT file")
            /\ cPc' = "done"
            /\ UNCHANGED dot
       ELSE /\ dot' = NormalizeNewlines(rawDot[1])
            /\ cPc' = "labels"
            /\ UNCHANGED logs
    /\ UNCHANGED <<rawDot, rawJson, idToLabel, newDot, convertedDot, convertedJson>>

\* 2. the id to label map from the comment lines
ExtractLabels ==
    /\ cPc = "labels"
    /\ idToLabel' = CommentLabels(dot, 1, << >>)
    /\ cPc' = "edges"
    /\ UNCHANGED <<rawDot, rawJson, dot, newDot, convertedDot, convertedJson, logs>>

\* 3. the edges rewritten
RewriteEdges ==
    /\ cPc = "edges"
    /\ newDot' = ReplaceEdges(dot, 1, idToLabel)
    /\ cPc' = "strip"
    /\ UNCHANGED <<rawDot, rawJson, dot, idToLabel, convertedDot, convertedJson, logs>>

\* 4. comment lines and empty lines removed
StripComments ==
    /\ cPc = "strip"
    /\ newDot' = RemoveBlankLines(RemoveComments(newDot, 1), 1)
    /\ cPc' = "write"
    /\ UNCHANGED <<rawDot, rawJson, dot, idToLabel, convertedDot, convertedJson, logs>>

\* 5. fs.writeFile(newDotPath, newDot)
WriteDot ==
    /\ cPc = "write"
    /\ convertedDot' = Some(newDot)
    /\ cPc' = "json"
    /\ UNCHANGED <<rawDot, rawJson, dot, idToLabel, newDot, convertedJson, logs>>

\* newVariables[i]: undefined outside the array
At(arr, i) == IF i >= 0 /\ i < Len(arr) THEN JStr(arr[i + 1]) ELSE JUndef

\* a plausible slip (and the record layout the data model describes): the cells
\* copied with their indices
ConvertCellKeepIndex(newVariables, cell) ==
    [src |-> cell.src, dest |-> cell.dest, values |-> cell.values]

\* parsed.cells.map(cell => ({src: newVariables[cell.src], dest: ..., values: cell.values}))
ConvertCell(newVariables, cell) ==
    [src |-> At(newVariables, cell.src.n), dest |-> At(newVariables, cell.dest.n),
     values |-> cell.values]

\* newJson = {...parsed, variables: newVariables, cells: newCells}
ConvertRecords(parsed) ==
    LET newVariables == [i \in 1..Len(parsed.variables[1]) |-> basename(parsed.variables[1][i])]
    IN  [kind |-> parsed.kind, name |-> parsed.name,
         variables |-> Some(newVariables),
         cells |-> Some([i \in 1..Len(parsed.cells[1]) |->
                            ConvertCell(newVariables, parsed.cells[1][i])])]

\* whether fs.readFile, JSON.parse or one of the two .map calls throws
JsonThrows(j) == j.kind # "object" \/ j.variables = Null \/ j.cells = Null

\* the inner try with an empty catch block
ConvertJsonSilent ==
    /\ cPc = "json"
    /\ IF JsonThrows(rawJson)
       THEN UNCHANGED convertedJson
       ELSE convertedJson' = Some(ConvertRecords(rawJson))
    /\ cPc' = "done"
    /\ UNCHANGED <<rawDot, rawJson, dot, idToLabel, newDot, convertedDot, logs>>

\* 6. the inner try / catch
ConvertJson ==
    /\ cPc = "json"
    /\ IF JsonThrows(rawJson)
       THEN /\ logs' = Append(logs, "warn: JSON file not found or failed to convert")
            /\ UNCHANGED convertedJson
       ELSE /\ convertedJson' = Some(ConvertRecords(rawJson))
            /\ UNCHANGED logs
    /\ cPc' = "done"
    /\ UNCHANGED <<rawDot, rawJson, dot, idToLabel, newDot, convertedDot>>

(***************************************************************************)
(* parseFileWithTreeSitter: nodeToDot and treeToDot.                       *)
(***************************************************************************)
\* String(n) of a non-negative integer, as a template literal prints it.
DigitChars == <<"0", "1", "2", "3", "4", "5", "6", "7", "8", "9">>

RECURSIVE Decimal(_)
Decimal(n) ==
    IF n < 10 THEN <<DigitChars[n + 1]>>
    ELSE Decimal(n \div 10) \o <<DigitChars[(n % 10) + 1]>>

LabelOpen == <<" ", "[", "l", "a", "b", "e", "l", "=", "\"">>
LabelClose == <<"\"", "]", ";">>
Arrow == <<" ", "-", ">", " ">>
Indent == <<" ", " ">>

\* nodeToDot(node, parentId, nextId, lines); st is [nextId, lines]
RECURSIVE nodeToDot(_, _, _), nodeToDotChildren(_, _, _, _)
\* nodeToDot without `if (parentId !== -1)`
nodeToDotRootEdge(node, parentId, st) ==
    LET myId == st.nextId
        decl == Indent \o Decimal(myId) \o LabelOpen \o node.type \o LabelClose
        edge == Indent \o (IF parentId = -1 THEN <<"-", "1">> ELSE Decimal(parentId))
                       \o Arrow \o Decimal(myId) \o <<";">>
    IN  nodeToDotChildren(node, 1, myId,
                          [nextId |-> myId + 1, lines |-> st.lines \o <<decl, edge>>])

nodeToDot(node, parentId, st) ==
    LET myId == st.nextId
        decl == Indent \o Decimal(myId) \o LabelOpen \o node.type \o LabelClose
        edge == Indent \o Decimal(parentId) \o Arrow \o Decimal(myId) \o <<";">>
        pushed == IF parentId # -1 THEN <<decl, edge>> ELSE <<decl>>
    IN  nodeToDotChildren(node, 1, myId,
                          [nextId |-> myId + 1, lines |-> st.lines \o pushed])

\* for (let i = 0; i < node.childCount; i++) nodeToDot(node.child(i), myId, ...)
nodeToDotChildren(node, i, myId, st) ==
    IF i > Len(node.children) THEN st
    ELSE nodeToDotChildren(node, i + 1, myId, nodeToDot(node.children[i], myId, st))

\* treeToDot's addNode(node); st is [idCounter, lines], the result adds nodeId
RECURSIVE addNode(_, _), addNodeChildren(_, _, _, _)
addNode(node, st) ==
    LET nodeId == <<"n">> \o Decimal(st.idCounter)
        decl == nodeId \o LabelOpen \o node.type \o LabelClose
        after == addNodeChildren(node, 1, nodeId,
                                 [idCounter |-> st.idCounter + 1,
                                  lines |-> Append(st.lines, decl)])
    IN  [idCounter |-> after.idCounter, lines |-> after.lines, nodeId |-> nodeId]

\* for (const child of node.children) { childId = addNode(child); push edge }
addNodeChildren(node, i, nodeId, st) ==
    IF i > Len(node.children) THEN st
    ELSE LET sub == addNode(node.children[i], st)
             edge == nodeId \o Arrow \o sub.nodeId \o <<";">>
         IN  addNodeChildren(node, i + 1, nodeId,
                             [idCounter |-> sub.idCounter,
                              lines |-> Append(sub.lines, edge)])

HeaderAST == <<"d", "i", "g", "r", "a", "p", "h", " ", "A", "S", "T", " ", "{">>
HeaderG == <<"d", "i", "g", "r", "a", "p", "h", " ", "G", " ", "{">>
Footer == <<"}">>

\* dotLines = ['digraph AST {']; nodeToDot(root, -1, {value: 0}, dotLines);
\* dotLines.push('}')
dotLinesOf(root) ==
    Append(nodeToDot(root, -1, [nextId |-> 0, lines |-> <<HeaderAST>>]).lines, Footer)

\* treeToDot(tree) before the join
treeToDotLines(root) ==
    Append(addNode(root, [idCounter |-> 0, lines |-> <<HeaderG>>]).lines, Footer)

treeToDot(root) == Join(treeToDotLines(root), <<"\n">>)

\* node.type of the nodes of the parsed tree
TypePlain == <<"x">>
TypeQuote == <<"\"">>
TypeBackslash == <<"\\">>
TypeQuoteBracket == <<"\"", "]">>
NodeTypes == {TypePlain, TypeQuote, TypeBackslash, TypeQuoteBracket}

\* the trees of exactly n nodes, and the sequences of trees of n nodes in all
RECURSIVE TreesOfSize(_), ForestsOfSize(_)
TreesOfSize(n) ==
    { [type |-> t, children |-> f] : t \in NodeTypes, f \in ForestsOfSize(n - 1) }

ForestsOfSize(n) ==
    IF n = 0 THEN { << >> }
    ELSE UNION { { <<t>> \o f : t \in TreesOfSize(k), f \in ForestsOfSize(n - k) }
                 : k \in 1..n }

Trees == UNION { TreesOfSize(n) : n \in 1..MaxTreeNodes }

TreeIdle ==
    /\ tree = << >>
    /\ tPc = "off"
    /\ dotGraph = Null
    /\ dotFileGraph = Null

\* 4. Build DOT graph from AST: dotGraph = dotLines.join('\n'), written to
\* <file>.tree.dot
BuildDotGraph ==
    /\ tPc = "parsed"
    /\ dotGraph' = Some(Join(dotLinesOf(tree), <<"\n">>))
    /\ tPc' = "dotWritten"
    /\ UNCHANGED <<tree, dotFileGraph>>

\* const dotFileGraph = treeToDot(tree)
RenderTree ==
    /\ tPc = "dotWritten"
    /\ dotFileGraph' = Some(treeToDot(tree))
    /\ tPc' = "rendered"
    /\ UNCHANGED <<tree, dotGraph>>

(***************************************************************************)
(* The specifications: the overlay, the client parser, the conversion.     *)
(***************************************************************************)
Init ==
    /\ OverlayIdle
    /\ ParseIdle
    /\ ConvertIdle
    /\ TreeIdle

Next ==
    \/ \E n \in NodeIds : Tap(n) /\ UNCHANGED <<parseVars, convertVars, treeVars>>
    \/ \E i \in 1..MaxTaps, r \in Outcomes :
          FetchResponse(i, r) /\ UNCHANGED <<parseVars, convertVars, treeVars>>
    \/ ClickBackdrop /\ UNCHANGED <<parseVars, convertVars, treeVars>>
    \/ ClickClose /\ UNCHANGED <<parseVars, convertVars, treeVars>>
    \/ ClickContent /\ UNCHANGED <<parseVars, convertVars, treeVars>>

Spec == Init /\ [][Next]_vars

ParseInit ==
    /\ OverlayIdle
    /\ ConvertIdle
    /\ TreeIdle
    /\ dotText \in DotTexts
    /\ pPc = "fetched"
    /\ quotedMatch = FALSE
    /\ ran = << >>
    /\ gNodes = << >>
    /\ gEdges = << >>
    /\ gPos = << >>

ParseStep ==
    \/ Probe /\ UNCHANGED <<overlayVars, convertVars, treeVars>>
    \/ ExtractQuoted /\ UNCHANGED <<overlayVars, convertVars, treeVars>>
    \/ ParseLabeled /\ UNCHANGED <<overlayVars, convertVars, treeVars>>

SpecParse == ParseInit /\ [][ParseStep]_vars

ConvertInit ==
    /\ OverlayIdle
    /\ ParseIdle
    /\ TreeIdle
    /\ \/ /\ rawDot \in {Null} \cup {Some(t) : t \in RawTexts}
          /\ rawJson \in JsonBasic
       \/ /\ rawDot = Some(RawDefault)
          /\ rawJson \in JsonFiles
    /\ cPc = "start"
    /\ dot = << >>
    /\ idToLabel = << >>
    /\ newDot = << >>
    /\ convertedDot = Null
    /\ convertedJson = Null
    /\ logs = << >>

ConvertStep ==
    \/ ReadDot /\ UNCHANGED <<overlayVars, parseVars, treeVars>>
    \/ ExtractLabels /\ UNCHANGED <<overlayVars, parseVars, treeVars>>
    \/ RewriteEdges /\ UNCHANGED <<overlayVars, parseVars, treeVars>>
    \/ StripComments /\ UNCHANGED <<overlayVars, parseVars, treeVars>>
    \/ WriteDot /\ UNCHANGED <<overlayVars, parseVars, treeVars>>
    \/ ConvertJson /\ UNCHANGED <<overlayVars, parseVars, treeVars>>

SpecConvert == ConvertInit /\ [][ConvertStep]_vars

TreeInit ==
    /\ OverlayIdle
    /\ ParseIdle
    /\ ConvertIdle
    /\ tree \in Trees
    /\ tPc = "parsed"
    /\ dotGraph = Null
    /\ dotFileGraph = Null

TreeStep ==
    \/ BuildDotGraph /\ UNCHANGED <<overlayVars, parseVars, convertVars>>
    \/ RenderTree /\ UNCHANGED <<overlayVars, parseVars, convertVars>>

SpecTree == TreeInit /\ [][TreeStep]_vars


(***************************************************************************)
(* Claims about the overlay (specification Spec).                          *)
(***************************************************************************)
\* the elements of c without the repeats of an earlier element, in order
RECURSIVE DistinctInOrder(_, _)
DistinctInOrder(c, i) ==
    IF i > Len(c) THEN << >>
    ELSE (IF \E j \in 1..(i - 1) : c[j] = c[i] THEN << >> ELSE <<c[i]>>)
         \o DistinctInOrder(c, i + 1)

\* C1: a response (success or failure) of the retrieval of a node that is no
\* longer the overlay's title is discarded: it changes neither the overlay's
\* content nor its error.
C1_LateResponseDiscarded ==
    [][\A i \in 1..Len(acts) :
          (/\ acts[i].pc = "fetching"
           /\ acts'[i].pc \in {"found", "failed"}
           /\ popupTitle # Some(acts[i].nodeId))
          => (popupDot' = popupDot /\ popupError' = popupError)]_vars

\* C2: right after an activation the prior error and the prior content are
\* cleared and the title is the activated node's id.
C2_ActivateClears ==
    [][Len(acts') = Len(acts) + 1
          => (/\ popupError' = Null
              /\ popupDot' = Null
              /\ popupTitle' = Some(acts'[Len(acts')].nodeId))]_vars

\* C3: every retrieval requests the distinct candidates of its node id in list
\* order, one at a time; every request before the last one failed; it ends found
\* exactly on the first success, with that candidate's location and text, and
\* nothing is requested after it.
C3_OrderedFirstSuccess ==
    \A i \in 1..Len(acts) :
        LET a == acts[i]
            d == DistinctInOrder(candidates(a.nodeId), 1)
            n == Len(a.tried)
        IN  /\ n >= 1 /\ n <= Len(d)
            /\ a.tried = SubSeq(d, 1, n)
            /\ Len(a.log) = (IF a.pc = "fetching" THEN n - 1 ELSE n)
            /\ \A k \in 1..Len(a.log) : a.log[k].url = a.tried[k]
            /\ \A k \in 1..(n - 1) : ~a.log[k].ok
            /\ (a.pc = "found") = (Len(a.log) = n /\ a.log[n].ok)
            /\ a.pc = "found" =>
                 a.result = Some([url |-> d[n], text |-> DotAt(d[n])])
            /\ a.pc = "failed" => n = Len(d)

\* a retrieval that found its artifact at the last distinct candidate of an id
\* with a path separator, after every earlier candidate failed
C3_Witness ==
    \E i \in 1..Len(acts) :
        /\ acts[i].pc = "found"
        /\ acts[i].nodeId = <<"u", "/", "h">>
        /\ Len(acts[i].log) = 6
        /\ popupDot = Some(DotAt(candidates(acts[i].nodeId)[7]))

\* C4: the step in which a retrieval runs out of candidates leaves the overlay
\* with no content and with the message that lists the distinct candidates of
\* that node id, each once, in the order tried.
C4_FailedEnumerates ==
    [][\A i \in 1..Len(acts) :
          (acts[i].pc = "fetching" /\ acts'[i].pc = "failed")
          => LET n == acts[i].nodeId
                 d == DistinctInOrder(candidates(n), 1)
             IN  /\ popupDot' = Null
                 /\ popupError' = Some(NoDotFileMessage(n, d))
                 /\ Len(acts'[i].log) = Len(d)
                 /\ \A k \in 1..Len(d) :
                       acts'[i].log[k].url = d[k] /\ ~acts'[i].log[k].ok]_vars

\* a failed retrieval of an id with a path separator, its message on display
C4_Witness ==
    \E i \in 1..Len(acts) :
        /\ acts[i].pc = "failed"
        /\ acts[i].nodeId = <<"u", "/", "h">>
        /\ popupDot = Null
        /\ popupError = Some(NoDotFileMessage(acts[i].nodeId, acts[i].tried))
        /\ Len(acts[i].tried) = 6


(***************************************************************************)
(* Claims about the client parser (specification SpecParse).               *)
(***************************************************************************)
NodeIdSet == { gNodes[i].id : i \in 1..Len(gNodes) }
LabelOfNode(x) == gNodes[CHOOSE i \in 1..Len(gNodes) : gNodes[i].id = x].label

\* a declaration <id> [label="..."] of the id x stands somewhere in the text
DeclaredIn(text, x) ==
    \E s \in 1..Len(text) :
        /\ s = 1 \/ text[s - 1] \notin WordChar
        /\ NodeAt(text, s).ok
        /\ NodeAt(text, s).g1 = x

\* C6: in the model of either dialect every edge joins two nodes of the node
\* set, the node ids are unique, and an endpoint without a declaration is a
\* node labeled with its own id.
C6_EdgesJoinNodes ==
    pPc = "done" =>
        /\ \A k \in 1..Len(gEdges) : gEdges[k][1] \in NodeIdSet /\ gEdges[k][2] \in NodeIdSet
        /\ \A i, j \in 1..Len(gNodes) : gNodes[i].id = gNodes[j].id => i = j
        /\ \A k \in 1..Len(gEdges) : \A e \in 1..2 :
              (ran = <<"quoted">> \/ ~DeclaredIn(dotText, gEdges[k][e]))
                  => LabelOfNode(gEdges[k][e]) = gEdges[k][e]

\* a labeled-node model with an edge from a declared node to an undeclared one
C6_Witness ==
    /\ pPc = "done"
    /\ ran = <<"labeled">>
    /\ \E k \in 1..Len(gEdges) :
          /\ DeclaredIn(dotText, gEdges[k][1])
          /\ LabelOfNode(gEdges[k][1]) # gEdges[k][1]
          /\ ~DeclaredIn(dotText, gEdges[k][2])

\* the lines of the text that hold a match of "X" -> "Y"
QuotedLines(lines) ==
    { i \in 1..Len(lines) : \E s \in 1..Len(lines[i]) : QuotedAt(lines[i], s).ok }

\* the leftmost match of "X" -> "Y" in a line that holds one
LeftmostQuoted(line) ==
    QuotedAt(line, CHOOSE s \in 1..Len(line) :
                      /\ QuotedAt(line, s).ok
                      /\ \A t \in 1..(s - 1) : ~QuotedAt(line, t).ok)

EdgeLabels == { gEdges[k][e] : k \in 1..Len(gEdges), e \in 1..2 }

\* C7 as stated: the edges are all the occurrences of "X" -> "Y" of the text.
C7_AllOccurrences ==
    (pPc = "done" /\ ran = <<"quoted">>) =>
        /\ gEdges = QuotedEdgesGlobal(dotText, 1)
        /\ NodeIdSet = EdgeLabels

\* C7 as amended: one edge per line that holds a match, the leftmost match of
\* the line, in line order with duplicates kept; the nodes are the distinct
\* labels of those edges, each labeled with itself.
C7_OneEdgePerLine ==
    (pPc = "done" /\ ran = <<"quoted">>) =>
        LET lines == SplitLines(dotText)
            M == QuotedLines(lines)
        IN  /\ Len(gEdges) = Cardinality(M)
            /\ \A i \in M :
                  gEdges[Cardinality({j \in M : j <= i})]
                      = <<LeftmostQuoted(lines[i]).g1, LeftmostQuoted(lines[i]).g2>>
            /\ NodeIdSet = EdgeLabels
            /\ Len(gNodes) = Cardinality(EdgeLabels)
            /\ \A i \in 1..Len(gNodes) : gNodes[i].label = gNodes[i].id

\* a line with two occurrences gave one edge, another line gave the second
C7_Witness ==
    /\ pPc = "done"
    /\ ran = <<"quoted">>
    /\ Len(gEdges) = 2
    /\ Len(QuotedEdgesGlobal(dotText, 1)) = 3

\* the text holds a substring "X" -> "Y": a quote, one or more characters that
\* are no quote, a quote, white space, ->, white space, and the same again
HasQuotedEdge(text) ==
    \E s \in 1..Len(text) :
        /\ text[s] = Q
        /\ \E q1 \in (s + 2)..Len(text) :
              /\ text[q1] = Q
              /\ \A k \in (s + 1)..(q1 - 1) : text[k] # Q
              /\ \E a \in (q1 + 1)..(Len(text) - 1) :
                    /\ \A k \in (q1 + 1)..(a - 1) : text[k] \in Space
                    /\ text[a] = "-" /\ text[a + 1] = ">"
                    /\ \E b \in (a + 2)..Len(text) :
                          /\ \A k \in (a + 2)..(b - 1) : text[k] \in Space
                          /\ text[b] = Q
                          /\ \E q2 \in (b + 2)..Len(text) :
                                /\ text[q2] = Q
                                /\ \A k \in (b + 1)..(q2 - 1) : text[k] # Q

HasEdgeMatch(text) == \E s \in 1..Len(text) : EdgeAt(text, s).ok
HasNodeMatch(text) == \E s \in 1..Len(text) : NodeAt(text, s).ok

\* C8 as stated: exactly one strategy runs, the quoted one whenever the text
\* holds a quoted edge, and a text with no quoted edge and no edge match gives
\* the empty model.
C8_EmptyWithoutEdges ==
    /\ pPc # "done" => ran = << >>
    /\ pPc = "done" =>
          /\ Len(ran) = 1
          /\ (ran = <<"quoted">>) = HasQuotedEdge(dotText)
          /\ (~HasQuotedEdge(dotText) /\ ~HasEdgeMatch(dotText))
                => (gNodes = << >> /\ gEdges = << >>)

\* C8 as amended: ... and a text with no quoted edge, no node declaration and
\* no edge match gives the empty model.
C8_ExclusiveTotal ==
    /\ pPc # "done" => ran = << >>
    /\ pPc = "done" =>
          /\ Len(ran) = 1
          /\ (ran = <<"quoted">>) = HasQuotedEdge(dotText)
          /\ (~HasQuotedEdge(dotText) /\ ~HasEdgeMatch(dotText) /\ ~HasNodeMatch(dotText))
                => (gNodes = << >> /\ gEdges = << >>)
          /\ (~HasQuotedEdge(dotText) /\ HasNodeMatch(dotText)) => gNodes # << >>

\* the quoted strategy taken for a text that also holds a node declaration and
\* an unquoted edge
C8_Witness ==
    /\ pPc = "done"
    /\ ran = <<"quoted">>
    /\ HasNodeMatch(dotText)
    /\ HasEdgeMatch(dotText)
    /\ gEdges # << >>


(***************************************************************************)
(* Claims about convertDotIds (specification SpecConvert).                 *)
(***************************************************************************)
JsonWritten == cPc = "done" /\ convertedJson # Null

LinesOf(text) ==
    IF text = << >> THEN << >>
    ELSE IF text[Len(text)] = "\n" THEN SplitLines(SubSeq(text, 1, Len(text) - 1))
    ELSE SplitLines(text)

\* a comment line: // after optional white space
IsCommentLine(line) == LitAt(line, SkipWhile(line, 1, Space), <<"/", "/">>)
IsBlankLine(line) == \A k \in 1..Len(line) : line[k] \in Space

\* C9: the converted graph text holds no comment line and no blank line.
C9_NoCommentLines ==
    (cPc = "done" /\ convertedDot # Null) =>
        \A i \in 1..Len(LinesOf(convertedDot[1])) :
            /\ ~IsCommentLine(LinesOf(convertedDot[1])[i])
            /\ ~IsBlankLine(LinesOf(convertedDot[1])[i])

\* the leftmost match of // <digits>:<path> in a line, if any
CommentOfLine(line) ==
    IF \E s \in 1..Len(line) : CommentAt(line, s).ok
    THEN CommentAt(line, CHOOSE s \in 1..Len(line) :
                            /\ CommentAt(line, s).ok
                            /\ \A t \in 1..(s - 1) : ~CommentAt(line, t).ok)
    ELSE NoMatch

\* the lines whose comment names the id x
CommentLinesOf(lines, x) ==
    { i \in 1..Len(lines) : CommentOfLine(lines[i]).ok /\ CommentOfLine(lines[i]).g1 = x }

\* the basename of the path in the last // x:<path> comment
LastCommentLabel(lines, x) ==
    LET i == CHOOSE i \in CommentLinesOf(lines, x) :
                 \A j \in CommentLinesOf(lines, x) : j <= i
    IN  basename(CommentOfLine(lines[i]).g2)

\* label(x) as stated: the map's value, x itself exactly when x is absent
LabelAsStated(lines, x) ==
    IF CommentLinesOf(lines, x) # {} THEN LastCommentLabel(lines, x) ELSE x

\* label(x) as amended: x itself also when the map's value is empty
LabelAsAmended(lines, x) ==
    IF CommentLinesOf(lines, x) # {} /\ LastCommentLabel(lines, x) # << >>
    THEN LastCommentLabel(lines, x)
    ELSE x

\* the line <ws>"from" -> "to";<rest> an edge line is to become
RewrittenLine(line, from, to) ==
    LET m == EdgeLineAt(line, 1)
    IN  m.space \o <<Q>> \o from \o <<Q, " ", "-", ">", " ", Q>> \o to \o <<Q, ";">>
            \o SubSeq(line, m.end, Len(line))

\* C10 as stated: every edge line is in the converted text with the labels of
\* its ids, where an id has itself as label exactly when no comment names it.
C10_LabelOrAbsent ==
    (cPc = "done" /\ convertedDot # Null) =>
        LET lines == SplitLines(dot)
        IN  \A i \in 1..Len(lines) :
                EdgeLineAt(lines[i], 1).ok =>
                    \E j \in 1..Len(LinesOf(convertedDot[1])) :
                        LinesOf(convertedDot[1])[j]
                            = RewrittenLine(lines[i],
                                  LabelAsStated(lines, EdgeLineAt(lines[i], 1).from),
                                  LabelAsStated(lines, EdgeLineAt(lines[i], 1).to))

\* C10 as amended: ... where an id has itself as label when no comment names
\* it or when the basename of its last comment's path is empty.
C10_LabelOrFallback ==
    (cPc = "done" /\ convertedDot # Null) =>
        LET lines == SplitLines(dot)
        IN  /\ \A i \in 1..Len(lines) :
                  EdgeLineAt(lines[i], 1).ok =>
                      \E j \in 1..Len(LinesOf(convertedDot[1])) :
                          LinesOf(convertedDot[1])[j]
                              = RewrittenLine(lines[i],
                                    LabelAsAmended(lines, EdgeLineAt(lines[i], 1).from),
                                    LabelAsAmended(lines, EdgeLineAt(lines[i], 1).to))
            /\ \A k \in 1..Len(idToLabel) :
                  /\ CommentLinesOf(lines, idToLabel[k][1]) # {}
                  /\ idToLabel[k][2] = LastCommentLabel(lines, idToLabel[k][1])

\* an indented edge line from a resolved id to an unresolved one, rewritten
\* with its indentation
C10_Witness ==
    /\ cPc = "done"
    /\ convertedDot # Null
    /\ \E i \in 1..Len(SplitLines(dot)) :
          LET m == EdgeLineAt(SplitLines(dot)[i], 1)
          IN  /\ m.ok
              /\ m.space # << >>
              /\ MapHas(idToLabel, m.from)
              /\ MapGet(idToLabel, m.from) = <<"b", ".", "p", "y">>
              /\ ~MapHas(idToLabel, m.to)
              /\ \E j \in 1..Len(LinesOf(convertedDot[1])) :
                    LinesOf(convertedDot[1])[j]
                        = m.space \o <<Q, "b", ".", "p", "y", Q, " ", "-", ">", " ", Q>>
                                  \o m.to \o <<Q, ";">>

(***************************************************************************)
(* Claims about the radial layout (specification SpecParse).               *)
(***************************************************************************)
clamp(x, lo, hi) == IF x < lo THEN lo ELSE IF x > hi THEN hi ELSE x

\* C11: every graph init places, whichever dialect it was parsed from, has
\* one position per node, each on the circle of radius
\* clamp(40 * nodeCount, 120, 300), node i at the angle i / max(1, n) of a
\* full turn, so that node 0 is at center + (radius, 0).
C11_RadiusClamped ==
    pPc = "done" =>
        LET n == Len(gNodes)
            radius == clamp(40 * n, 120, 300)
        IN  /\ Len(gPos) = n
            /\ \A i \in 1..n :
                  /\ gPos[i].radius = radius
                  /\ gPos[i].turn = i - 1
                  /\ gPos[i].of = (IF n >= 1 THEN n ELSE 1)
            /\ n >= 1 =>
                  /\ PosX(gPos[1]) = Some(centerX + radius)
                  /\ PosY(gPos[1]) = Some(centerY)

(***************************************************************************)
(* Claims about the tree serializers (specification SpecTree).             *)
(***************************************************************************)
\* The nodes of a tree, each named by the child positions leading to it.
RECURSIVE Paths(_)
Paths(node) ==
    { << >> } \cup
    UNION { { <<i>> \o p : p \in Paths(node.children[i]) }
            : i \in 1..Len(node.children) }

RECURSIVE SubtreeAt(_, _)
SubtreeAt(node, p) ==
    IF p = << >> THEN node ELSE SubtreeAt(node.children[Head(p)], Tail(p))

ParentPath(p) == SubSeq(p, 1, Len(p) - 1)

\* p is visited before q in a depth-first pre-order walk: p is a proper
\* ancestor of q, or p branches off to the left of q.
VisitedBefore(p, q) ==
    \/ Len(p) < Len(q) /\ SubSeq(q, 1, Len(p)) = p
    \/ \E k \in 1..Len(p) :
          /\ k <= Len(q)
          /\ SubSeq(p, 1, k - 1) = SubSeq(q, 1, k - 1)
          /\ p[k] < q[k]

\* The pre-order number of a node, counted from 0.
PreorderId(root, p) == Cardinality({ q \in Paths(root) : VisitedBefore(q, p) })

DeclLine(indent, idPrefix, k, type) ==
    indent \o idPrefix \o Decimal(k) \o LabelOpen \o type \o LabelClose
EdgeLine(indent, idPrefix, k, m) ==
    indent \o idPrefix \o Decimal(k) \o Arrow \o idPrefix \o Decimal(m) \o <<";">>

Occurrences(lines, l) == { j \in 1..Len(lines) : lines[j] = l }

\* The text is a header, a footer and, between them, one declaration line per
\* node and one edge line per non-root node, ids being pre-order numbers.
SerializesTree(text, root, header, indent, idPrefix) ==
    LET lines == SplitLines(text)
        ps == Paths(root)
        N == Cardinality(ps)
        decl(p) == DeclLine(indent, idPrefix, PreorderId(root, p), SubtreeAt(root, p).type)
        edge(p) == EdgeLine(indent, idPrefix, PreorderId(root, ParentPath(p)),
                            PreorderId(root, p))
    IN  /\ Len(lines) = 2 + N + (N - 1)
        /\ lines[1] = header
        /\ lines[Len(lines)] = Footer
        /\ \A p \in ps : Cardinality(Occurrences(lines, decl(p))) = 1
        /\ \A p \in ps \ { << >> } : Cardinality(Occurrences(lines, edge(p))) = 1
        /\ \A p \in ps, q \in ps :
              VisitedBefore(p, q) =>
                 \A i \in Occurrences(lines, decl(p)), j \in Occurrences(lines, decl(q)) :
                    i < j
        /\ \A p \in ps \ { << >> } :
              \A i \in Occurrences(lines, decl(p)), j \in Occurrences(lines, edge(p)) :
                 i < j

\* C12: for a tree of N nodes each serializer invocation emits exactly N
\* declaration lines and N-1 edge lines; the ids are the nodes' depth-first
\* pre-order numbers from 0 (one id per node, one node per id), declared in
\* that order, and every edge line joins a parent's id to a child's id.
C12_PreorderBijection ==
    /\ dotGraph # Null =>
          SerializesTree(dotGraph[1], tree, HeaderAST, Indent, << >>)
    /\ dotFileGraph # Null =>
          SerializesTree(dotFileGraph[1], tree, HeaderG, << >>, <<"n">>)

C12_Witness ==
    /\ tPc = "rendered"
    /\ Paths(tree) = { << >>, <<1>>, <<1, 1>>, <<2>> }
    /\ tree.type = TypePlain

\* A string with every double-quote and backslash preceded by a backslash.
RECURSIVE Escaped(_)
Escaped(str) ==
    IF str = << >> THEN << >>
    ELSE (IF Head(str) \in {"\"", "\\"} THEN <<"\\", Head(str)>> ELSE <<Head(str)>>)
         \o Escaped(Tail(str))

\* Every node's declaration line carries the node's type escaped.
EscapesTypes(text, root, indent, idPrefix) ==
    \A p \in Paths(root) :
       \E j \in 1..Len(SplitLines(text)) :
          SplitLines(text)[j] =
             DeclLine(indent, idPrefix, PreorderId(root, p), Escaped(SubtreeAt(root, p).type))

\* The client's labeled-node parser reads every node back with its type.
ParsesBack(text, root, idPrefix) ==
    LET nodes == parseDotToElements(text).nodes
    IN  \A p \in Paths(root) :
           \E i \in 1..Len(nodes) :
              /\ nodes[i].id = idPrefix \o Decimal(PreorderId(root, p))
              /\ nodes[i].label = SubtreeAt(root, p).type

\* C13: the serializers escape every double-quote and backslash of a node's
\* type, and every declaration line they emit is parsed back by the client's
\* labeled-node parser to a node whose label is that type.
C13_EscapedRoundTrip ==
    /\ dotGraph # Null =>
          /\ EscapesTypes(dotGraph[1], tree, Indent, << >>)
          /\ ParsesBack(dotGraph[1], tree, << >>)
    /\ dotFileGraph # Null =>
          /\ EscapesTypes(dotFileGraph[1], tree, << >>, <<"n">>)
          /\ ParsesBack(dotFileGraph[1], tree, <<"n">>)

(***************************************************************************)
(* Claims about the side file (specification SpecConvert).                 *)
(***************************************************************************)
\* The side file is missing, is no JSON, or lacks the variables or the cells
\* the conversion maps over.
SideFileUnusable ==
    \/ rawJson.kind \in {"absent", "malformed"}
    \/ rawJson.variables = Null
    \/ rawJson.cells = Null

Warnings == { i \in 1..Len(logs) : logs[i] = "warn: JSON file not found or failed to convert" }

\* C14: when the graph file has been converted and the side file is missing
\* or cannot be parsed or converted, the conversion ends without failing:
\* exactly one warning and nothing else is logged, no converted record set is
\* written, and the converted graph text, already written before the side
\* file is looked at, is the stripped text.
C14_SideFileSkipped ==
    /\ (cPc = "done" /\ rawDot # Null /\ SideFileUnusable) =>
          /\ Cardinality(Warnings) = 1
          /\ Len(logs) = 1
          /\ convertedJson = Null
          /\ convertedDot = Some(newDot)
    /\ cPc = "json" => convertedDot = Some(newDot) /\ logs = << >>

C14_Witness ==
    /\ cPc = "done"
    /\ rawJson = JsonMalformed
    /\ rawDot = Some(RawDefault)
    /\ convertedDot # Null
    /\ convertedJson = Null
    /\ Len(logs) = 1

(***************************************************************************)
(* Claims about dismissing the overlay (specification Spec).               *)
(***************************************************************************)
Displaying == Truthy(popupDot)
Failed == Truthy(popupError)
Idle == popupDot = Null /\ popupError = Null /\ popupTitle = Null

\* C15: the close action and a click outside the content region happen only
\* while the overlay is Displaying or Failed and leave it Idle, with content,
\* error and title cleared; a click inside the header or the body leaves the
\* overlay state unchanged; and no other step that starts or resumes no
\* retrieval changes the overlay.
C15_DismissClears ==
    [][/\ (ClickClose \/ ClickBackdrop) => ((Displaying \/ Failed) /\ Idle')
       /\ ClickContent => (/\ popupDot' = popupDot
                           /\ popupError' = popupError
                           /\ popupTitle' = popupTitle)
       /\ (acts' = acts /\ ~Idle') =>
             (/\ popupDot' = popupDot
              /\ popupError' = popupError
              /\ popupTitle' = popupTitle)]_vars

\* A retrieval failed, its error was shown, and the overlay has been dismissed.
C15_Witness ==
    /\ Len(acts) = 1
    /\ acts[1].pc = "failed"
    /\ Idle

\* C16: a dismissed overlay stays Idle until the next activation: the step in
\* which a retrieval started before the dismissal completes, the overlay being
\* Idle, leaves it Idle.
C16_StaysDismissed ==
    [][(/\ Idle
        /\ Len(acts') = Len(acts)
        /\ \E i \in 1..Len(acts) :
              acts[i].pc = "fetching" /\ acts'[i].pc \in {"found", "failed"})
       => Idle']_vars

====
